---- MODULE Spec2Model ----
(***************************************************************************)
(* Authentication and session lifecycle of lekha-server: OAuth identity   *)
(* resolution (UserService::oauth_login), access credentials (utils::jwt),*)
(* refresh sessions (TokenService, RefreshTokenRepository) and the        *)
(* cookie-based request gate (AuthenticatedUser).                         *)
(*                                                                         *)
(* Every `.await` on the database is one atomic statement; a request is a  *)
(* process that runs its statements in program order and interleaves with  *)
(* the other requests between statements.  Time is counted in seconds.     *)
(* uuid::Uuid::new_v4() is modelled as a value never produced before, and  *)
(* SHA-256 as an injective tagging of its input.                           *)
(***************************************************************************)
EXTENDS Integers, Sequences, FiniteSets, TLC

\* ------------------------------------------------------------------ bounds
MaxRequests == 3      \* requests started in one behaviour
MaxTicks == 1         \* clock advances in one behaviour
MaxMinted == 2        \* credentials minted in one behaviour of TokenSpec
MaxTokenTicks == 2    \* clock advances in one behaviour of TokenSpec

\* ------------------------------------------------------- program constants
ACCESS_TOKEN_EXPIRATION_MINUTES == 15
REFRESH_TOKEN_EXPIRATION_DAYS == 7
\* jsonwebtoken's Validation::default(): leeway of 60 seconds on exp
Leeway == 60

\* --------------------------------------------------------------- input sets
Procs == {"r1", "r2"}                    \* concurrently handled requests
Providers == {"google", "kakao"}         \* OAuthProvider (naver behaves alike)
ProviderUserIds == {"id1"}
Emails == {"a@x.com", "b@x.com"}
Usernames == {"alice", "bob"}
Requests == [provider : Providers, provider_user_id : ProviderUserIds,
             email : Emails, username : Usernames]
\* the clock advances to the expiry instant of a session, or just past it
SessionTickSteps == {REFRESH_TOKEN_EXPIRATION_DAYS * 24 * 60 * 60,
                     REFRESH_TOKEN_EXPIRATION_DAYS * 24 * 60 * 60 + 1}
TokenTickSteps == {1, Leeway}
BogusSecret == 0                         \* a refresh secret never issued
AttackerKey == "k-attacker"
Unset == "<unset>"                       \* std::env::var("JWT_SECRET") is Err
NoEnv == "<unset>"                       \* std::env::var("ENV") is Err
EnvValues == {"production", "development", "Production", NoEnv}

VARIABLES
    users,          \* table users: [id, username, email, password_hash]
    links,          \* table o_auth_accounts: [id, user_id, provider, provider_user_id]
    sessions,       \* table refresh_tokens: [id, user_id, token_hash, expires_at]
    nextUserId, nextLinkId, nextSessionId,   \* auto-increment primary keys
    nextUuid,       \* the next value of uuid::Uuid::new_v4()
    now,            \* Utc::now(), in seconds
    ticks,          \* clock advances so far
    started,        \* requests started so far
    jwt_secret,     \* TokenService.jwt_secret / env JWT_SECRET
    token_service,  \* the result of TokenService::new
    env,            \* env ENV
    proc,           \* per request: position and local variables
    clientSecrets,  \* raw refresh secrets delivered in refresh_token cookies
    clientTokens,   \* access credentials delivered in access_token cookies
    outcomes,       \* history: <<raw, result>> of every completed refresh
    resolved,       \* history: [req, uid] of every successful oauth_login
    lost,           \* history: [req, uid] of every user insert the email constraint
                    \* rejected, uid being the user that holds the email
    logins,         \* history: <<uid, n>> for the n-th successful oauth_login of uid
    refused,        \* history: the requests whose user insert was refused
    dropped,        \* history: the position and locals of every abandoned request
    pre,            \* the tables as the running call found them (sequential calls)
    minted,         \* TokenSpec: credentials minted
    verdicts        \* TokenSpec: [token, at, ok] of every verification

vars == <<users, links, sessions, nextUserId, nextLinkId, nextSessionId, nextUuid,
          now, ticks, started, jwt_secret, token_service, env, proc, clientSecrets,
          clientTokens, outcomes, resolved, lost, logins, refused, dropped, pre,
          minted, verdicts>>

db == <<users, links, sessions, nextUserId, nextLinkId, nextSessionId>>
journal == <<logins, refused, dropped>>
history == <<outcomes, resolved, lost, journal>>
tokenVars == <<token_service, env, minted, verdicts>>

\* ------------------------------------------------------------ utils::jwt
\* i32::to_string and str::parse::<i32>
I32ToString(n) == <<"str", n>>
ParseI32(s) == IF s[1] = "str" THEN s[2] ELSE -1

NoToken == [form |-> "none", sub |-> I32ToString(0), iat |-> 0, exp |-> 0, key |-> ""]
Malformed == [form |-> "garbage", sub |-> I32ToString(0), iat |-> 0, exp |-> 0, key |-> ""]

\* generate_token: claims {sub, exp, iat} signed with `secret`
GenerateToken(user_id, secret, expiration_hours, t) ==
    [form |-> "jwt", sub |-> I32ToString(user_id), iat |-> t,
     exp |-> t + expiration_hours * 60 * 60, key |-> secret]

\* a verification without the leeway
VerifyToken_NoLeeway(token, secret, t) ==
    /\ token.form = "jwt"
    /\ token.key = secret
    /\ ~(token.exp < t)

\* a verification that does not check the signature
VerifyToken_AnyKey(token, secret, t) ==
    /\ token.form = "jwt"
    /\ ~(token.exp < t - Leeway)

\* verify_token: decode with Validation::default() (signature, exp with leeway)
VerifyToken(token, secret, t) ==
    /\ token.form = "jwt"
    /\ token.key = secret
    /\ ~(token.exp < t - Leeway)

\* ---------------------------------------------------------- TokenService
\* a credential minted for no user in particular
GenerateAccessToken_Anonymous(user_id, t) ==
    GenerateToken(0, jwt_secret, ACCESS_TOKEN_EXPIRATION_MINUTES \div 60, t)

\* generate_access_token: the minutes constant is passed as hours, divided by 60
GenerateAccessToken(user_id, t) ==
    GenerateToken(user_id, jwt_secret, ACCESS_TOKEN_EXPIRATION_MINUTES \div 60, t)

\* a hash_token that maps every secret to one digest
HashToken_Constant(token) == <<"sha256", 0>>

\* the text of a raw secret, as a column would hold it unhashed
PlainText(token) == <<"plain", token>>

\* a hash_token that returns its input
HashToken_Plain(token) == PlainText(token)

HashToken(token) == <<"sha256", token>>

\* a session that lives six days
RefreshExpiresAt_SixDays(t) == t + 6 * 24 * 60 * 60

RefreshExpiresAt(t) == t + REFRESH_TOKEN_EXPIRATION_DAYS * 24 * 60 * 60

\* ---------------------------------------------------------- repositories
\* a link lookup that never finds the link
FindByProviderAndId_Miss(provider, provider_user_id) == {}

FindByProviderAndId(provider, provider_user_id) ==
    {l \in links : l.provider = provider /\ l.provider_user_id = provider_user_id}

\* a primary-key lookup that never finds the user
FindById_Miss(id) == {}

FindById(id) == {u \in users : u.id = id}

\* an email lookup that never finds the user
FindByEmail_Miss(email) == {}

FindByEmail(email) == {u \in users : u.email = email}

\* a users table whose email column is not unique
UserInsertOk_UsernameOnly(username, email) ==
    \A u \in users : u.username # username

\* a users table whose username column is not unique
UserInsertOk_EmailOnly(username, email) ==
    \A u \in users : u.email # email

\* users.username and users.email are unique
UserInsertOk(username, email) ==
    \A u \in users : u.username # username /\ u.email # email

\* an o_auth_accounts table without its unique index
LinkInsertOk_NoUnique(user_id, provider, provider_user_id) ==
    \E u \in users : u.id = user_id

\* unique (provider, provider_user_id); user_id references users.id
LinkInsertOk(user_id, provider, provider_user_id) ==
    /\ \A l \in links : ~(l.provider = provider /\ l.provider_user_id = provider_user_id)
    /\ \E u \in users : u.id = user_id

\* the DbErr of a refused insert names the constraint that refused it
UserInsertErr(username, email) ==
    {"unique: users.email" : u \in {x \in users : x.email = email}}
    \cup {"unique: users.username" : u \in {x \in users : x.username = username}}

LinkInsertErr(user_id, provider, provider_user_id) ==
    {"unique: idx-oauth_accounts-provider-provider_user_id" :
         l \in {x \in links : x.provider = provider
                               /\ x.provider_user_id = provider_user_id}}
    \cup (IF \E u \in users : u.id = user_id THEN {}
          ELSE {"foreign key: fk-oauth_accounts-user_id"})

SessionInsertErr(user_id, token_hash) ==
    {"unique: idx-refresh_tokens-token_hash" :
         r \in {x \in sessions : x.token_hash = token_hash}}
    \cup (IF \E u \in users : u.id = user_id THEN {}
          ELSE {"foreign key: fk-refresh_tokens-user_id"})

\* a hash lookup that never finds the record
FindByTokenHash_Miss(token_hash) == {}

FindByTokenHash(token_hash) == {s \in sessions : s.token_hash = token_hash}

\* token_hash is unique; user_id references users.id
SessionInsertOk(user_id, token_hash) ==
    /\ \A s \in sessions : s.token_hash # token_hash
    /\ \E u \in users : u.id = user_id

\* a delete without its token_hash filter
DeleteByTokenHash_All(token_hash) == {}

DeleteByTokenHash(token_hash) == {s \in sessions : s.token_hash # token_hash}

\* a delete without its user_id filter
DeleteByUserId_All(user_id) == {}

DeleteByUserId(user_id) == {s \in sessions : s.user_id # user_id}

\* a clean-up that also removes the rows expiring at this very instant
DeleteExpired_Inclusive(t) == {s \in sessions : ~(s.expires_at <= t)}

DeleteExpired(t) == {s \in sessions : ~(s.expires_at < t)}

\* a foreign key without ON DELETE CASCADE enforcement
OnDeleteCascade_NoAction(rows, user_id) == rows

\* the foreign keys to users.id: ON DELETE CASCADE
OnDeleteCascade(rows, user_id) == {r \in rows : r.user_id # user_id}

\* a revoke that deletes nothing
RevokeRefreshToken_Skip(refresh_token) == sessions

\* TokenService::revoke_refresh_token
RevokeRefreshToken(refresh_token) == DeleteByTokenHash(HashToken(refresh_token))

\* an expired branch that leaves the record in place
DropExpiredToken_Skip(token_hash) == sessions

\* TokenService::refresh_access_token, the expired branch: the record is deleted
DropExpiredToken(token_hash) == DeleteByTokenHash(token_hash)

\* TokenService::revoke_all_refresh_tokens
RevokeAllRefreshTokens(user_id) == DeleteByUserId(user_id)

\* ------------------------------------------------------------ ServiceError
\* the variants a request of this model can end with
ServiceError == {"UserNotFound", "MissingJwtSecret", "RefreshTokenNotFound",
                 "RefreshTokenExpired", "Database"}

\* impl IntoResponse for ServiceError: Database(_) discards the DbErr it carries
IntoResponse(err) ==
    CASE err = "UserNotFound" -> [status |-> 404, error |-> "User not found"]
      [] err = "MissingJwtSecret" ->
             [status |-> 500, error |-> "Server configuration error"]
      [] err = "RefreshTokenNotFound" ->
             [status |-> 401, error |-> "Refresh token not found or invalid"]
      [] err = "RefreshTokenExpired" ->
             [status |-> 401, error |-> "Refresh token expired"]
      [] err = "Database" -> [status |-> 500, error |-> "Internal server error"]

\* a response that hands the client the Display text of the error
Response_Leaky(p) ==
    IF proc[p].result = "Database"
    THEN [status |-> 500, error |-> "Database error: " \o proc[p].db_err]
    ELSE IntoResponse(proc[p].result)

\* Err(e) => e.into_response() for the error that ended the request in slot p;
\* Self::Database(_) drops the DbErr the variant carries
Response(p) == IntoResponse(proc[p].result)

\* ---------------------------------------------------------------- cookies
\* a configuration that never allows cross-site cookies
GetCookieConfig_AlwaysLax ==
    [is_production |-> env = "production", same_site |-> "Lax"]

\* auth_handler::get_cookie_config: ENV, "development" when absent
GetCookieConfig ==
    LET is_production == (IF env = NoEnv THEN "development" ELSE env) = "production"
    IN [is_production |-> is_production,
        same_site |-> IF is_production THEN "None" ELSE "Lax"]

\* user_handler::oauth_login computes the same pair in line
OauthLoginCookieConfig ==
    LET is_production == (IF env = NoEnv THEN "development" ELSE env) = "production"
    IN [is_production |-> is_production,
        same_site |-> IF is_production THEN "None" ELSE "Lax"]

BuildAccessTokenCookie(token, is_production, same_site) ==
    [name |-> "access_token", value |-> token, http_only |-> TRUE,
     secure |-> is_production, same_site |-> same_site,
     max_age |-> ACCESS_TOKEN_EXPIRATION_MINUTES * 60, path |-> "/"]

BuildRefreshTokenCookie(token, is_production, same_site) ==
    [name |-> "refresh_token", value |-> token, http_only |-> TRUE,
     secure |-> is_production, same_site |-> same_site,
     max_age |-> REFRESH_TOKEN_EXPIRATION_DAYS * 24 * 60 * 60, path |-> "/"]

\* the cookies a handler adds to the response of an Ok result, in order
SetCookies(kind, access_token, refresh_token) ==
    LET config == IF kind = "login" THEN OauthLoginCookieConfig ELSE GetCookieConfig
    IN <<BuildAccessTokenCookie(access_token, config.is_production, config.same_site),
         BuildRefreshTokenCookie(refresh_token, config.is_production, config.same_site)>>

\* ------------------------------------------------------------- requests
NoReq == [provider |-> "", provider_user_id |-> "", email |-> "", username |-> ""]

NoDbErr == "none"                        \* the request met no DbErr

Idle == [kind |-> "none", pc |-> "idle", req |-> NoReq, raw |-> BogusSecret,
         user |-> 0, access |-> NoToken, newRaw |-> BogusSecret,
         at |-> 0, result |-> "none", rows |-> 0, prior |-> {}, again |-> {},
         lostTo |-> {}, solo |-> FALSE, db_err |-> NoDbErr,
         retry |-> FALSE, seen |-> 0]

InFlight(p) == proc[p].pc \notin {"idle", "done", "abandoned"}

\* a new request takes the first free slot (which slot it takes is immaterial)
Free(p) == ~InFlight(p) /\ (p = "r1" \/ InFlight("r1"))

CanStart(p, seq) ==
    /\ Free(p)
    /\ started < MaxRequests
    /\ seq => \A q \in Procs : ~InFlight(q)
    /\ \A q \in Procs : InFlight(q) => ~proc[q].solo

\* successful logins of a user so far
LoginCount(uid) == Cardinality({x \in logins : x[1] = uid})

Snapshot == [users |-> users, links |-> links, sessions |-> sessions]

Begin(seq) ==
    /\ started' = started + 1
    /\ pre' = IF seq THEN Snapshot ELSE pre

\* empty tables, no request yet
Boot ==
    /\ users = {} /\ links = {} /\ sessions = {}
    /\ nextUserId = 1 /\ nextLinkId = 1 /\ nextSessionId = 1
    /\ nextUuid = 1
    /\ now = 0 /\ ticks = 0 /\ started = 0
    /\ proc = [p \in Procs |-> Idle]
    /\ clientSecrets = {} /\ clientTokens = {}
    /\ outcomes = {} /\ resolved = {} /\ lost = {}
    /\ logins = {} /\ refused = {} /\ dropped = {}
    /\ pre = Snapshot
    /\ minted = {} /\ verdicts = {}

\* JWT_SECRET is set and create_router has built the services
Init ==
    /\ Boot
    /\ jwt_secret = "k-server" /\ token_service = "Ok"
    /\ env = "production"

\* --------------------------------------------- UserService::oauth_login
\* find_by_provider_and_id
LoginFindLink(p, req, seq) ==
    /\ CanStart(p, seq)
    /\ Begin(seq)
    /\ LET found == FindByProviderAndId(req.provider, req.provider_user_id) IN
       proc' = [proc EXCEPT ![p] =
                  [Idle EXCEPT !.kind = "login", !.req = req, !.solo = seq,
                     !.pc = IF found = {} THEN "find_by_email" ELSE "find_by_id",
                     !.user = IF found = {} THEN 0
                              ELSE (CHOOSE l \in found : TRUE).user_id,
                     !.again = {r.uid : r \in {x \in resolved : x.req = req}},
                     !.lostTo = {r.uid : r \in {x \in lost : x.req = req}},
                     !.retry = req \in refused]]
    /\ UNCHANGED <<db, nextUuid, now, ticks, jwt_secret, clientSecrets, clientTokens,
                   history, tokenVars>>

\* find_by_id(oauth_account.user_id).ok_or(UserNotFound)
LoginFindUser(p) ==
    /\ proc[p].kind = "login" /\ proc[p].pc = "find_by_id"
    /\ proc' = [proc EXCEPT ![p] =
                  IF FindById(proc[p].user) = {}
                  THEN [@ EXCEPT !.pc = "done", !.result = "UserNotFound", !.user = 0]
                  ELSE [@ EXCEPT !.pc = "issue"]]
    /\ UNCHANGED <<db, nextUuid, now, ticks, started, jwt_secret, clientSecrets,
                   clientTokens, history, pre, tokenVars>>

\* find_by_email(&req.email)
LoginFindEmail(p) ==
    /\ proc[p].kind = "login" /\ proc[p].pc = "find_by_email"
    /\ LET found == FindByEmail(proc[p].req.email) IN
       proc' = [proc EXCEPT ![p] =
                  IF found = {}
                  THEN [@ EXCEPT !.pc = "create_user"]
                  ELSE [@ EXCEPT !.pc = "create_link",
                                 !.user = (CHOOSE u \in found : TRUE).id]]
    /\ UNCHANGED <<db, nextUuid, now, ticks, started, jwt_secret, clientSecrets,
                   clientTokens, history, pre, tokenVars>>

\* user_repo.create(username, email, None)
LoginCreateUser(p) ==
    /\ proc[p].kind = "login" /\ proc[p].pc = "create_user"
    /\ IF UserInsertOk(proc[p].req.username, proc[p].req.email)
       THEN /\ users' = users \cup {[id |-> nextUserId,
                                     username |-> proc[p].req.username,
                                     email |-> proc[p].req.email,
                                     password_hash |-> "None"]}
            /\ nextUserId' = nextUserId + 1
            /\ proc' = [proc EXCEPT ![p].pc = "create_link", ![p].user = nextUserId]
       ELSE /\ \E e \in UserInsertErr(proc[p].req.username, proc[p].req.email) :
                   proc' = [proc EXCEPT ![p].pc = "done", ![p].result = "Database",
                                        ![p].db_err = e]
            /\ UNCHANGED <<users, nextUserId>>
    /\ refused' = IF UserInsertOk(proc[p].req.username, proc[p].req.email)
                  THEN refused ELSE refused \cup {proc[p].req}
    /\ lost' = lost \cup {[req |-> proc[p].req, uid |-> u.id] :
                              u \in {x \in users : x.email = proc[p].req.email}}
    /\ UNCHANGED <<links, sessions, nextLinkId, nextSessionId, nextUuid, now, ticks,
                   started, jwt_secret, clientSecrets, clientTokens, outcomes, resolved,
                   logins, dropped, pre, tokenVars>>

\* oauth_repo.create(user.id, req.provider, req.provider_user_id)
LoginCreateLink(p) ==
    /\ proc[p].kind = "login" /\ proc[p].pc = "create_link"
    /\ IF LinkInsertOk(proc[p].user, proc[p].req.provider, proc[p].req.provider_user_id)
       THEN /\ links' = links \cup {[id |-> nextLinkId, user_id |-> proc[p].user,
                                     provider |-> proc[p].req.provider,
                                     provider_user_id |-> proc[p].req.provider_user_id]}
            /\ nextLinkId' = nextLinkId + 1
            /\ proc' = [proc EXCEPT ![p].pc = "issue"]
       ELSE /\ \E e \in LinkInsertErr(proc[p].user, proc[p].req.provider,
                                       proc[p].req.provider_user_id) :
                   proc' = [proc EXCEPT ![p].pc = "done", ![p].result = "Database",
                                        ![p].user = 0, ![p].db_err = e]
            /\ UNCHANGED <<links, nextLinkId>>
    /\ UNCHANGED <<users, sessions, nextUserId, nextSessionId, nextUuid, now, ticks,
                   started, jwt_secret, clientSecrets, clientTokens, history, pre,
                   tokenVars>>

\* generate_access_token(user.id), then generate_refresh_token(user.id)
LoginIssue(p) ==
    /\ proc[p].kind = "login" /\ proc[p].pc = "issue"
    /\ LET access == GenerateAccessToken(proc[p].user, now)
           refresh_token == nextUuid
       IN IF SessionInsertOk(proc[p].user, HashToken(refresh_token))
          THEN /\ sessions' = sessions \cup
                     {[id |-> nextSessionId, user_id |-> proc[p].user,
                       token_hash |-> HashToken(refresh_token),
                       expires_at |-> RefreshExpiresAt(now)]}
               /\ nextSessionId' = nextSessionId + 1
               /\ proc' = [proc EXCEPT ![p].pc = "done", ![p].result = "Ok",
                                       ![p].access = access,
                                       ![p].newRaw = refresh_token]
               /\ clientSecrets' = clientSecrets \cup {refresh_token}
               /\ clientTokens' = clientTokens \cup {access}
               /\ resolved' = resolved \cup {[req |-> proc[p].req, uid |-> proc[p].user]}
               /\ logins' = logins \cup
                                {<<proc[p].user, LoginCount(proc[p].user) + 1>>}
          ELSE /\ \E e \in SessionInsertErr(proc[p].user, HashToken(refresh_token)) :
                      proc' = [proc EXCEPT ![p].pc = "done", ![p].result = "Database",
                                           ![p].user = 0, ![p].db_err = e]
               /\ UNCHANGED <<sessions, nextSessionId, clientSecrets, clientTokens,
                              resolved, logins>>
    /\ nextUuid' = nextUuid + 1
    /\ UNCHANGED <<users, links, nextUserId, nextLinkId, now, ticks, started,
                   jwt_secret, outcomes, lost, refused, dropped, pre, tokenVars>>

\* ------------------------------------------ UserService::refresh_tokens
Finish(p, raw, result) == outcomes' = outcomes \cup {<<raw, result>>}

\* a redeem that consumes the record it finds
RefreshRedeem_Consuming(p, raw, seq) ==
    /\ CanStart(p, seq)
    /\ Begin(seq)
    /\ LET found == FindByTokenHash(HashToken(raw))
           base == [Idle EXCEPT !.kind = "refresh", !.raw = raw, !.solo = seq,
                       !.prior = {o[2] : o \in {x \in outcomes : x[1] = raw}}]
       IN IF found = {}
          THEN /\ proc' = [proc EXCEPT ![p] =
                             [base EXCEPT !.pc = "done",
                                          !.result = "RefreshTokenNotFound"]]
               /\ Finish(p, raw, "RefreshTokenNotFound")
               /\ UNCHANGED sessions
          ELSE LET stored_token == CHOOSE s \in found : TRUE IN
               /\ proc' = [proc EXCEPT ![p] =
                             IF stored_token.expires_at < now
                             THEN [base EXCEPT !.pc = "delete_expired", !.at = now]
                             ELSE [base EXCEPT !.pc = "issue", !.at = now,
                                     !.user = stored_token.user_id,
                                     !.access = GenerateAccessToken(stored_token.user_id, now)]]
               /\ sessions' = DeleteByTokenHash(HashToken(raw))
               /\ UNCHANGED outcomes
    /\ UNCHANGED <<users, links, nextUserId, nextLinkId, nextSessionId, nextUuid, now,
                   ticks, jwt_secret, clientSecrets, clientTokens, resolved, lost,
                   journal, tokenVars>>

\* TokenService::refresh_access_token up to its first await on a write
RefreshRedeem(p, raw, seq) ==
    /\ CanStart(p, seq)
    /\ Begin(seq)
    /\ LET found == FindByTokenHash(HashToken(raw))
           base == [Idle EXCEPT !.kind = "refresh", !.raw = raw, !.solo = seq,
                       !.prior = {o[2] : o \in {x \in outcomes : x[1] = raw}}]
       IN IF found = {}
          THEN /\ proc' = [proc EXCEPT ![p] =
                             [base EXCEPT !.pc = "done",
                                          !.result = "RefreshTokenNotFound"]]
               /\ Finish(p, raw, "RefreshTokenNotFound")
          ELSE LET stored_token == CHOOSE s \in found : TRUE IN
               /\ proc' = [proc EXCEPT ![p] =
                             IF stored_token.expires_at < now
                             THEN [base EXCEPT !.pc = "delete_expired", !.at = now]
                             ELSE [base EXCEPT !.pc = "issue", !.at = now,
                                     !.user = stored_token.user_id,
                                     !.access = GenerateAccessToken(stored_token.user_id, now)]]
               /\ UNCHANGED outcomes
    /\ UNCHANGED <<db, nextUuid, now, ticks, jwt_secret, clientSecrets, clientTokens,
                   resolved, lost, journal, tokenVars>>

\* delete_by_token_hash of the expired record, then Err(RefreshTokenExpired)
RefreshDeleteExpired(p) ==
    /\ proc[p].kind = "refresh" /\ proc[p].pc = "delete_expired"
    /\ sessions' = DropExpiredToken(HashToken(proc[p].raw))
    /\ proc' = [proc EXCEPT ![p].pc = "done", ![p].result = "RefreshTokenExpired"]
    /\ Finish(p, proc[p].raw, "RefreshTokenExpired")
    /\ UNCHANGED <<users, links, nextUserId, nextLinkId, nextSessionId, nextUuid, now,
                   ticks, started, jwt_secret, clientSecrets, clientTokens, resolved,
                   lost, journal, pre, tokenVars>>

\* generate_refresh_token(user_id)
RefreshIssue(p) ==
    /\ proc[p].kind = "refresh" /\ proc[p].pc = "issue"
    /\ LET refresh_token == nextUuid IN
       IF SessionInsertOk(proc[p].user, HashToken(refresh_token))
       THEN /\ sessions' = sessions \cup
                  {[id |-> nextSessionId, user_id |-> proc[p].user,
                    token_hash |-> HashToken(refresh_token),
                    expires_at |-> RefreshExpiresAt(now)]}
            /\ nextSessionId' = nextSessionId + 1
            /\ proc' = [proc EXCEPT ![p].pc = "revoke", ![p].newRaw = refresh_token]
            /\ UNCHANGED outcomes
       ELSE /\ \E e \in SessionInsertErr(proc[p].user, HashToken(refresh_token)) :
                   proc' = [proc EXCEPT ![p].pc = "done", ![p].result = "Database",
                                        ![p].user = 0, ![p].access = NoToken,
                                        ![p].db_err = e]
            /\ Finish(p, proc[p].raw, "Database")
            /\ UNCHANGED <<sessions, nextSessionId>>
    /\ nextUuid' = nextUuid + 1
    /\ UNCHANGED <<users, links, nextUserId, nextLinkId, now, ticks, started,
                   jwt_secret, clientSecrets, clientTokens, resolved, lost, journal,
                   pre, tokenVars>>

\* revoke_refresh_token(refresh_token), then Ok((access, new_refresh, user_id))
RefreshRevoke(p) ==
    /\ proc[p].kind = "refresh" /\ proc[p].pc = "revoke"
    /\ sessions' = RevokeRefreshToken(proc[p].raw)
    /\ proc' = [proc EXCEPT ![p].pc = "done", ![p].result = "Ok"]
    /\ clientSecrets' = clientSecrets \cup {proc[p].newRaw}
    /\ clientTokens' = clientTokens \cup {proc[p].access}
    /\ Finish(p, proc[p].raw, "Ok")
    /\ UNCHANGED <<users, links, nextUserId, nextLinkId, nextSessionId, nextUuid, now,
                   ticks, started, jwt_secret, resolved, lost, journal, pre,
                   tokenVars>>

\* ------------------------------------------------- UserService::logout
Logout(p, raw, seq) ==
    /\ CanStart(p, seq)
    /\ Begin(seq)
    /\ sessions' = RevokeRefreshToken(raw)
    /\ proc' = [proc EXCEPT ![p] =
                  [Idle EXCEPT !.kind = "logout", !.raw = raw, !.pc = "done",
                     !.solo = seq,
                     !.result = "Ok",
                     !.rows = Cardinality(FindByTokenHash(HashToken(raw)))]]
    /\ UNCHANGED <<users, links, nextUserId, nextLinkId, nextSessionId, nextUuid, now,
                   ticks, jwt_secret, clientSecrets, clientTokens, history, tokenVars>>

\* ------------------------- auth_handler::logout_all behind AuthenticatedUser
\* from_request_parts: cookie "access_token", verify_token, sub.parse::<i32>()
\* a gate that trusts the subject of any well-formed credential
Authenticate_Unverified(cookie) ==
    IF cookie = <<>> THEN [status |-> "Unauthorized", id |-> 0]
    ELSE IF cookie[1].form # "jwt" THEN [status |-> "Unauthorized", id |-> 0]
    ELSE [status |-> "Ok", id |-> ParseI32(cookie[1].sub)]

\* a gate that verifies against whatever the environment holds, set or not
Authenticate_NoConfigCheck(cookie) ==
    IF cookie = <<>> THEN [status |-> "Unauthorized", id |-> 0]
    ELSE IF ~VerifyToken(cookie[1], jwt_secret, now)
         THEN [status |-> "Unauthorized", id |-> 0]
         ELSE [status |-> "Ok", id |-> ParseI32(cookie[1].sub)]

\* a gate that also wants a stored refresh session of the credential's user
Authenticate_Revocable(cookie) ==
    IF cookie = <<>> THEN [status |-> "Unauthorized", id |-> 0]
    ELSE IF \/ ~VerifyToken(cookie[1], jwt_secret, now)
            \/ ~\E s \in sessions : s.user_id = ParseI32(cookie[1].sub)
         THEN [status |-> "Unauthorized", id |-> 0]
         ELSE [status |-> "Ok", id |-> ParseI32(cookie[1].sub)]

Authenticate(cookie) ==
    IF cookie = <<>> THEN [status |-> "Unauthorized", id |-> 0]
    ELSE IF jwt_secret = Unset THEN [status |-> "InternalServerError", id |-> 0]
    ELSE IF ~VerifyToken(cookie[1], jwt_secret, now)
         THEN [status |-> "Unauthorized", id |-> 0]
         ELSE IF ParseI32(cookie[1].sub) < 0
              THEN [status |-> "Unauthorized", id |-> 0]
              ELSE [status |-> "Ok", id |-> ParseI32(cookie[1].sub)]

\* a gate that falls back to the user's refresh session when it rejects the
\* access credential, and mints a new credential
LogoutAll_Fallback(p, cookie, seq) ==
    /\ CanStart(p, seq)
    /\ Begin(seq)
    /\ LET auth == Authenticate(cookie)
           owner == IF cookie = <<>> THEN 0 ELSE ParseI32(cookie[1].sub)
           renew == auth.status # "Ok" /\ \E s \in sessions : s.user_id = owner
       IN /\ sessions' = IF auth.status = "Ok" \/ renew
                         THEN RevokeAllRefreshTokens(owner) ELSE sessions
          /\ clientTokens' = IF renew
                             THEN clientTokens \cup {GenerateAccessToken(owner, now)}
                             ELSE clientTokens
          /\ proc' = [proc EXCEPT ![p] =
                        [Idle EXCEPT !.kind = "logout_all", !.pc = "done", !.solo = seq,
                           !.user = IF auth.status = "Ok" \/ renew THEN owner ELSE 0,
                           !.result = IF renew THEN "Ok" ELSE auth.status,
                           !.access = IF cookie = <<>> THEN NoToken ELSE cookie[1]]]
    /\ UNCHANGED <<users, links, nextUserId, nextLinkId, nextSessionId, nextUuid, now,
                   ticks, jwt_secret, clientSecrets, history, tokenVars>>

LogoutAll(p, cookie, seq) ==
    /\ CanStart(p, seq)
    /\ Begin(seq)
    /\ LET auth == Authenticate(cookie) IN
       IF auth.status = "Ok"
       THEN /\ sessions' = RevokeAllRefreshTokens(auth.id)
            /\ proc' = [proc EXCEPT ![p] =
                          [Idle EXCEPT !.kind = "logout_all", !.pc = "done", !.solo = seq,
                             !.user = auth.id, !.result = "Ok",
                             !.access = cookie[1],
                             !.seen = LoginCount(auth.id),
                             !.rows = Cardinality({s \in sessions : s.user_id = auth.id})]]
       ELSE /\ proc' = [proc EXCEPT ![p] =
                          [Idle EXCEPT !.kind = "logout_all", !.pc = "done", !.solo = seq,
                             !.result = auth.status,
                             !.access = IF cookie = <<>> THEN NoToken ELSE cookie[1]]]
            /\ UNCHANGED sessions
    /\ UNCHANGED <<users, links, nextUserId, nextLinkId, nextSessionId, nextUuid, now,
                   ticks, jwt_secret, clientSecrets, clientTokens, history, tokenVars>>

\* --------------------------------------------------------- environment
\* RefreshTokenRepository::delete_expired, run by a scheduler
Reap ==
    /\ sessions # DeleteExpired(now)
    /\ sessions' = DeleteExpired(now)
    /\ UNCHANGED <<users, links, nextUserId, nextLinkId, nextSessionId, nextUuid, now,
                   ticks, started, jwt_secret, proc, clientSecrets, clientTokens,
                   history, pre, tokenVars>>

\* the client disconnects and the handler's future is dropped at an await
Abandon(p) ==
    /\ InFlight(p)
    /\ proc' = [proc EXCEPT ![p] =
                  [Idle EXCEPT !.kind = proc[p].kind, !.pc = "abandoned",
                               !.req = proc[p].req, !.raw = proc[p].raw]]
    /\ dropped' = dropped \cup
                     {[kind |-> proc[p].kind, pc |-> proc[p].pc, req |-> proc[p].req,
                       raw |-> proc[p].raw, user |-> proc[p].user,
                       newRaw |-> proc[p].newRaw]}
    /\ UNCHANGED <<db, nextUuid, now, ticks, started, jwt_secret, clientSecrets,
                   clientTokens, outcomes, resolved, lost, logins, refused, pre,
                   tokenVars>>

Tick(d) ==
    /\ ticks < MaxTicks
    /\ now' = now + d
    /\ ticks' = ticks + 1
    /\ UNCHANGED <<db, nextUuid, started, jwt_secret, proc, clientSecrets,
                   clientTokens, history, pre, tokenVars>>

\* what a client, or an attacker, can present
RefreshInputs == clientSecrets \cup {BogusSecret}

Forged == {GenerateToken(u.id, AttackerKey, 1, now) : u \in users}

Cookies == {<<>>, <<Malformed>>} \cup {<<t>> : t \in clientTokens \cup Forged}

LoginStep(p) ==
    \/ LoginFindUser(p)
    \/ LoginFindEmail(p)
    \/ LoginCreateUser(p)
    \/ LoginCreateLink(p)
    \/ LoginIssue(p)

ConcStep(p) ==
    \/ LoginStep(p)
    \/ RefreshIssue(p)
    \/ RefreshRevoke(p)

Step(p) ==
    \/ ConcStep(p)
    \/ RefreshDeleteExpired(p)

Arrive(seq) ==
    \/ \E p \in Procs, req \in Requests : LoginFindLink(p, req, seq)
    \/ \E p \in Procs, raw \in RefreshInputs : RefreshRedeem(p, raw, seq)
    \/ \E p \in Procs, raw \in RefreshInputs : Logout(p, raw, seq)
    \/ \E p \in Procs, cookie \in Cookies : LogoutAll(p, cookie, seq)

\* concurrent requests, the clock advancing, the scheduler reaping
Next ==
    \/ Arrive(FALSE)
    \/ \E p \in Procs : Step(p)
    \/ \E d \in SessionTickSteps : Tick(d)
    \/ Reap

Spec == Init /\ [][Next]_vars

\* concurrent requests within one instant: every interleaving of their statements
ConcNext ==
    \/ Arrive(FALSE)
    \/ \E p \in Procs : ConcStep(p)

ConcSpec == Init /\ [][ConcNext]_vars

\* one request at a time, each call recording the tables it started from;
\* a call may be abandoned half-way, the clock advances, the scheduler reaps
SeqNext ==
    \/ Arrive(TRUE)
    \/ \E p \in Procs : Step(p)
    \/ \E p \in Procs : Abandon(p)
    \/ \E d \in SessionTickSteps : Tick(d)
    \/ Reap

SeqSpec == Init /\ [][SeqNext]_vars

\* the runtime polls the future of every request that has not been dropped
SeqFairSpec == SeqSpec /\ \A p \in Procs : WF_vars(Step(p))

\* ------------------------------------------- responses under every ENV
CookieInit ==
    /\ Boot
    /\ jwt_secret = "k-server" /\ token_service = "Ok"
    /\ env \in EnvValues

CookieNext ==
    \/ Arrive(TRUE)
    \/ \E p \in Procs : ConcStep(p)

CookieSpec == CookieInit /\ [][CookieNext]_vars

\* ------------------------------------------------------ removal of a user
\* UserRepository::delete: User::delete_by_id, cascading to both child tables
DeleteUser(id) ==
    /\ FindById(id) # {}
    /\ users' = {u \in users : u.id # id}
    /\ links' = OnDeleteCascade(links, id)
    /\ sessions' = OnDeleteCascade(sessions, id)
    /\ UNCHANGED <<nextUserId, nextLinkId, nextSessionId, nextUuid, now, ticks,
                   started, jwt_secret, proc, clientSecrets, clientTokens, history,
                   pre, tokenVars>>

\* concurrent requests while users are removed
DeleteNext ==
    \/ Arrive(FALSE)
    \/ \E p \in Procs : ConcStep(p)
    \/ \E u \in users : DeleteUser(u.id)

DeleteSpec == Init /\ [][DeleteNext]_vars

\* ------------------------------------------------- the Token Issuer alone
UserIds == {1, 2}

TsMint(user_id) ==
    /\ token_service = "Ok"
    /\ Cardinality(minted) < MaxMinted
    /\ minted' = minted \cup {GenerateAccessToken(user_id, now)}
    /\ UNCHANGED <<db, nextUuid, now, ticks, started, jwt_secret, token_service, env, proc,
                   clientSecrets, clientTokens, history, pre, verdicts>>

TsTick(d) ==
    /\ ticks < MaxTokenTicks
    /\ now' = now + d
    /\ ticks' = ticks + 1
    /\ UNCHANGED <<db, nextUuid, started, jwt_secret, proc, clientSecrets,
                   clientTokens, history, pre, tokenVars>>

\* the latest verification: the credential, the instant, verify_token's answer
TsVerify(token) ==
    /\ verdicts' = {[token |-> token, at |-> now,
                     ok |-> VerifyToken(token, jwt_secret, now)]}
    /\ UNCHANGED <<db, nextUuid, now, ticks, started, jwt_secret, token_service, env, proc,
                   clientSecrets, clientTokens, history, pre, minted>>

TokenNext ==
    \/ \E user_id \in UserIds : TsMint(user_id)
    \/ \E d \in TokenTickSteps : TsTick(d)
    \/ \E token \in minted \cup {[t EXCEPT !.key = AttackerKey] : t \in minted}
                           \cup {Malformed} : TsVerify(token)

TokenSpec == Init /\ [][TokenNext]_vars

\* ------------------------------------------------------ oauth_login alone
\* logins racing with each other, and logins that run with nothing interleaved
LoginNext ==
    \/ \E p \in Procs, req \in Requests : LoginFindLink(p, req, FALSE)
    \/ \E p \in Procs, req \in Requests : LoginFindLink(p, req, TRUE)
    \/ \E p \in Procs : LoginStep(p)

LoginSpec == Init /\ [][LoginNext]_vars

\* -------------------------------- requests while access credentials age
GateNext ==
    \/ Arrive(TRUE)
    \/ \E p \in Procs : ConcStep(p)
    \/ \E d \in TokenTickSteps : TsTick(d)

GateSpec == Init /\ [][GateNext]_vars

\* ----------------------------------- start-up with or without JWT_SECRET
ConfigInit ==
    /\ Boot
    /\ jwt_secret \in {"k-server", Unset}
    /\ token_service = "unbuilt"
    /\ env = "production"

\* TokenService::new
TokenServiceNew ==
    /\ token_service = "unbuilt"
    /\ token_service' = IF jwt_secret = Unset THEN "MissingJwtSecret" ELSE "Ok"
    /\ UNCHANGED <<db, nextUuid, now, ticks, started, jwt_secret, env, proc,
                   clientSecrets, clientTokens, history, pre, minted, verdicts>>

GateCookies ==
    {<<>>, <<Malformed>>} \cup
    {<<t>> : t \in minted \cup {GenerateToken(u, AttackerKey, 1, now) : u \in UserIds}}

\* the latest request through AuthenticatedUser::from_request_parts
TsGate(cookie) ==
    /\ verdicts' = {[token |-> IF cookie = <<>> THEN NoToken ELSE cookie[1],
                     at |-> now,
                     ok |-> Authenticate(cookie).status = "Ok",
                     status |-> Authenticate(cookie).status,
                     id |-> Authenticate(cookie).id]}
    /\ UNCHANGED <<db, nextUuid, now, ticks, started, jwt_secret, token_service, env, proc,
                   clientSecrets, clientTokens, history, pre, minted>>

ConfigNext ==
    \/ TokenServiceNew
    \/ \E user_id \in UserIds : TsMint(user_id)
    \/ \E d \in TokenTickSteps : TsTick(d)
    \/ \E cookie \in GateCookies : TsGate(cookie)

ConfigSpec == ConfigInit /\ [][ConfigNext]_vars

\* ================================================================ claims
Redeemed(p) ==
    /\ proc[p].kind = "refresh"
    /\ proc[p].pc \in {"issue", "revoke"} \/ (proc[p].pc = "done" /\ proc[p].result = "Ok")

\* C1: of two refresh calls presenting the same live secret at most one succeeds,
\* and the other fails with RefreshTokenNotFound.
C1_AtMostOneRefreshSucceeds ==
    \A p, q \in Procs :
        (/\ p # q
         /\ proc[p].kind = "refresh" /\ proc[q].kind = "refresh"
         /\ proc[p].raw = proc[q].raw
         /\ proc[p].pc = "done" /\ proc[q].pc = "done"
         /\ proc[p].result = "Ok")
        => proc[q].result = "RefreshTokenNotFound"

\* C2: once a refresh(raw) has completed successfully, every refresh(raw) that
\* starts later fails with RefreshTokenNotFound.
C2_StaleSecretRejected ==
    \A p \in Procs :
        (proc[p].kind = "refresh" /\ "Ok" \in proc[p].prior)
        => (proc[p].pc = "done" /\ proc[p].result = "RefreshTokenNotFound")

C2_Witness ==
    \E p \in Procs :
        /\ proc[p].kind = "refresh" /\ "Ok" \in proc[p].prior
        /\ proc[p].pc = "done" /\ proc[p].result = "RefreshTokenNotFound"
        /\ sessions # {}

Stored(raw) == {s \in sessions : s.token_hash = HashToken(raw)}

C4_ExpiredRedeemDeletes ==
    \A p \in Procs :
        (proc[p].kind = "refresh" /\ proc[p].pc = "done")
        => /\ (\E s \in pre.sessions : /\ s.token_hash = HashToken(proc[p].raw)
                                       /\ s.expires_at < proc[p].at)
              => /\ proc[p].result = "RefreshTokenExpired"
                 /\ FindByTokenHash(HashToken(proc[p].raw)) = {}
           /\ "RefreshTokenExpired" \in proc[p].prior
              => proc[p].result = "RefreshTokenNotFound"

C4_Witness ==
    \E p \in Procs :
        /\ proc[p].kind = "refresh" /\ proc[p].pc = "done"
        /\ "RefreshTokenExpired" \in proc[p].prior
        /\ proc[p].result = "RefreshTokenNotFound"

\* C5: every minted access credential has exp - iat = 15 minutes (900 seconds).
C5_AccessLifetimeFifteenMinutes ==
    \A t \in minted : t.exp - t.iat = ACCESS_TOKEN_EXPIRATION_MINUTES * 60

C7_LogoutAllFrame ==
    [][\A p \in Procs :
          (/\ Free(p) /\ started' = started + 1
           /\ proc'[p].kind = "logout_all" /\ proc'[p].result = "Ok")
          => /\ sessions' = {s \in sessions : s.user_id # proc'[p].user}
             /\ users' = users
             /\ links' = links]_vars

C7_Witness ==
    \E p \in Procs :
        /\ proc[p].kind = "logout_all" /\ proc[p].result = "Ok" /\ proc[p].rows > 0
        /\ sessions # {}
        /\ \A s \in sessions : s.user_id # proc[p].user

\* C8: a login repeated after a successful login with the same assertion returns
\* the same user id and adds no User row and no OAuthLink row.
C8_ResolveIdempotent ==
    [][\A p \in Procs :
          (/\ proc[p].kind = "login" /\ InFlight(p) /\ proc[p].again # {}
           /\ proc'[p] # proc[p])
          => /\ users' = users
             /\ links' = links
             /\ proc'[p].pc = "done"
                => (proc'[p].result = "Ok" /\ proc[p].again = {proc'[p].user})]_vars

C8_Witness ==
    \E p \in Procs :
        /\ proc[p].kind = "login" /\ proc[p].again # {}
        /\ proc[p].pc = "done" /\ proc[p].result = "Ok"
        /\ proc[p].again = {proc[p].user}

\* C9: a login with an unseen (provider, provider_user_id) and an email held by
\* an existing user returns that user, adds exactly one OAuthLink owned by that
\* user and creates no User row.
LinksEmail(p) ==
    /\ proc[p].kind = "login" /\ proc[p].pc = "done"
    /\ \A l \in pre.links : ~(/\ l.provider = proc[p].req.provider
                              /\ l.provider_user_id = proc[p].req.provider_user_id)
    /\ \E u \in pre.users : u.email = proc[p].req.email

C9_LinksToEmailOwner ==
    \A p \in Procs :
        LinksEmail(p)
        => /\ proc[p].result = "Ok"
           /\ \E u \in pre.users : u.email = proc[p].req.email /\ u.id = proc[p].user
           /\ users = pre.users
           /\ \E l \in links \ pre.links :
                 /\ links = pre.links \cup {l}
                 /\ l.user_id = proc[p].user
                 /\ l.provider = proc[p].req.provider
                 /\ l.provider_user_id = proc[p].req.provider_user_id

C9_Witness ==
    \E p \in Procs :
        /\ LinksEmail(p) /\ proc[p].result = "Ok"
        /\ \E l \in pre.links : l.user_id = proc[p].user /\ l.provider # proc[p].req.provider

\* C10: no two User rows share an email, in any interleaving of logins.
C10_EmailUnique ==
    \A u1, u2 \in users : u1.email = u2.email => u1 = u2

C10_Witness ==
    \E p, q \in Procs :
        /\ p # q /\ proc[p].kind = "login" /\ proc[q].kind = "login"
        /\ proc[p].req.email = proc[q].req.email
        /\ proc[p].req.username # proc[q].req.username
        /\ proc[p].req.provider # proc[q].req.provider
        /\ proc[p].pc = "done" /\ proc[p].result = "Ok"
        /\ proc[q].pc = "done" /\ proc[q].result = "Database"
        /\ Cardinality(users) = 1

\* the step in which the users table rejects p's insert because the email is taken
LosesEmailRace(p) ==
    /\ proc[p].kind = "login" /\ proc[p].pc = "create_user"
    /\ proc'[p].pc = "done"
    /\ \E u \in users : u.email = proc[p].req.email

\* C11: the login whose User insert the unique-email constraint rejects ends with
\* a Conflict error, an outcome whose response differs from that of a generic
\* persistence failure; it leaves the winner's user row as it is and returns.
C11_LoserSurfacesConflict ==
    [][\A p \in Procs :
          LosesEmailRace(p)
          => /\ users' = users
             /\ proc'[p].result \in ServiceError
             /\ proc'[p].result # "Database"
             /\ IntoResponse(proc'[p].result) # IntoResponse("Database")]_vars

\* a retry of an assertion that lost the email race, run once nothing else is in
\* flight, the provider identity not being linked to a user other than the winner
RetriesAfterLoss(p) ==
    /\ proc[p].kind = "login" /\ proc[p].solo /\ proc[p].pc = "done"
    /\ proc[p].lostTo # {}
    /\ \A l \in pre.links :
          (/\ l.provider = proc[p].req.provider
           /\ l.provider_user_id = proc[p].req.provider_user_id)
          => l.user_id \in proc[p].lostTo

\* C12: once the winner of the unique-email race has finished, a retry of the
\* losing assertion succeeds and returns the winner's user id.
C12_RetryFindsWinner ==
    \A p \in Procs :
        RetriesAfterLoss(p)
        => (proc[p].result = "Ok" /\ proc[p].lostTo = {proc[p].user})

C12_Witness ==
    \E p \in Procs :
        /\ RetriesAfterLoss(p) /\ proc[p].result = "Ok"
        /\ proc[p].lostTo = {proc[p].user}
        /\ \E l \in links \ pre.links : l.user_id = proc[p].user
        /\ \E u \in users : u.id = proc[p].user /\ u.username # proc[p].req.username

\* C13: no two OAuthLink rows share a (provider, provider_user_id) pair, in any
\* interleaving of logins; one user may own links of several providers.
C13_LinkIdentityUnique ==
    \A l1, l2 \in links :
        (l1.provider = l2.provider /\ l1.provider_user_id = l2.provider_user_id)
        => l1 = l2

C13_Witness ==
    /\ \E l1, l2 \in links : l1.user_id = l2.user_id /\ l1.provider # l2.provider
    /\ \E p \in Procs :
          /\ proc[p].kind = "login" /\ proc[p].pc = "done"
          /\ proc[p].result = "Database"
          /\ \E l \in links : /\ l.provider = proc[p].req.provider
                               /\ l.provider_user_id = proc[p].req.provider_user_id
          /\ \A x \in lost : x.req # proc[p].req

\* a login, run with nothing interleaved, whose provider identity is already linked
FollowsLink(p) ==
    /\ proc[p].kind = "login" /\ proc[p].solo /\ proc[p].pc = "done"
    /\ \E l \in pre.links : /\ l.provider = proc[p].req.provider
                             /\ l.provider_user_id = proc[p].req.provider_user_id

\* C14: when a link for (provider, provider_user_id) exists, oauth_login returns
\* the link's owner whatever the incoming email and username are, and writes no
\* User row and no OAuthLink row.
C14_LinkLookupWins ==
    \A p \in Procs :
        FollowsLink(p)
        => /\ proc[p].result = "Ok"
           /\ \E l \in pre.links : /\ l.provider = proc[p].req.provider
                                    /\ l.provider_user_id = proc[p].req.provider_user_id
                                    /\ l.user_id = proc[p].user
           /\ users = pre.users
           /\ links = pre.links

C14_Witness ==
    \E p \in Procs :
        /\ FollowsLink(p) /\ proc[p].result = "Ok"
        /\ \E u \in users : u.email = proc[p].req.email /\ u.id # proc[p].user
        /\ \E u \in users : u.id = proc[p].user /\ u.username # proc[p].req.username

\* a login, run with nothing interleaved, that matches no link and no user's email
FirstLogin(p) ==
    /\ proc[p].kind = "login" /\ proc[p].solo /\ proc[p].pc = "done"
    /\ \A l \in pre.links : ~(/\ l.provider = proc[p].req.provider
                               /\ l.provider_user_id = proc[p].req.provider_user_id)
    /\ \A u \in pre.users : u.email # proc[p].req.email

\* C15: a login that matches no link and no user's email creates exactly one User
\* (no password hash, the request's username and email) and exactly one OAuthLink
\* owned by it, and returns that user.
C15_FirstLoginCreatesUser ==
    \A p \in Procs :
        FirstLogin(p)
        => /\ proc[p].result = "Ok"
           /\ \E u \in users \ pre.users :
                 /\ users = pre.users \cup {u}
                 /\ u.id = proc[p].user
                 /\ u.username = proc[p].req.username
                 /\ u.email = proc[p].req.email
                 /\ u.password_hash = "None"
           /\ \E l \in links \ pre.links :
                 /\ links = pre.links \cup {l}
                 /\ l.user_id = proc[p].user
                 /\ l.provider = proc[p].req.provider
                 /\ l.provider_user_id = proc[p].req.provider_user_id

\* C16: logout(raw) succeeds for every secret (live, expired, already revoked,
\* never issued); afterwards no session record matches the secret, so a second
\* logout changes nothing, and no other session record is removed.
C16_LogoutIdempotent ==
    [][\A p \in Procs :
          (Free(p) /\ started' = started + 1 /\ proc'[p].kind = "logout")
          => /\ proc'[p].pc = "done" /\ proc'[p].result = "Ok"
             /\ \A s \in sessions' : s.token_hash # HashToken(proc'[p].raw)
             /\ sessions' =
                   {s \in sessions : s.token_hash # HashToken(proc'[p].raw)}
             /\ users' = users /\ links' = links]_vars

C16_Witness ==
    \E p \in Procs :
        /\ proc[p].kind = "logout" /\ proc[p].result = "Ok"
        /\ proc[p].raw \in clientSecrets /\ proc[p].rows = 0
        /\ sessions # {}

\* the step in which a logout_all request arrives in slot p
LogoutAllArrives(p) ==
    Free(p) /\ started' = started + 1 /\ proc'[p].kind = "logout_all"

C18_GateNeverRefreshes ==
    [][\A p \in Procs :
          LogoutAllArrives(p)
          => /\ clientTokens' = clientTokens /\ clientSecrets' = clientSecrets
             /\ nextUuid' = nextUuid /\ nextSessionId' = nextSessionId
             /\ sessions' \subseteq sessions
             /\ proc'[p].result # "Ok" => sessions' = sessions]_vars

C18_Witness ==
    \E p \in Procs :
        /\ proc[p].kind = "logout_all" /\ proc[p].result = "Unauthorized"
        /\ proc[p].access \in clientTokens /\ ~VerifyToken(proc[p].access, jwt_secret, now)
        /\ \E raw \in clientSecrets :
              \E s \in Stored(raw) : /\ s.user_id = ParseI32(proc[p].access.sub)
                                      /\ ~(s.expires_at < now)

\* C19: an access credential delivered to a client authenticates at every instant
\* up to its expiry (and through the leeway after it), whatever logout,
\* logout_all or refresh of its user has happened since it was minted.
C19_AccessNotRevocable ==
    \A t \in clientTokens :
        ~(t.exp < now - Leeway)
        => Authenticate(<<t>>) = [status |-> "Ok", id |-> ParseI32(t.sub)]

C19_Witness ==
    \E p \in Procs :
        /\ proc[p].kind = "logout_all" /\ proc[p].result = "Ok" /\ proc[p].rows = 0
        /\ proc[p].access \in clientTokens
        /\ now <= proc[p].access.exp
        /\ \A s \in sessions : s.user_id # proc[p].user
        /\ \E raw \in clientSecrets : Stored(raw) = {}

\* C20 as claimed: with no signing secret configured no credential is minted,
\* TokenService::new fails with MissingJwtSecret, and every request through the
\* gate ends in the configuration error, never in success or in 401.
C20_GateAlwaysConfigurationError ==
    jwt_secret = Unset
    => /\ minted = {}
       /\ token_service \in {"unbuilt", "MissingJwtSecret"}
       /\ \A v \in verdicts : v.status = "InternalServerError"

\* C20 as amended: with no signing secret configured no credential is minted,
\* TokenService::new fails with MissingJwtSecret and no request is authenticated;
\* the gate answers a request that carries an access_token cookie with the
\* configuration error (500), and a request without the cookie with 401, before
\* it reads the secret.
C20_NoSecretNoAuthentication ==
    jwt_secret = Unset
    => /\ minted = {}
       /\ token_service \in {"unbuilt", "MissingJwtSecret"}
       /\ \A v \in verdicts :
             /\ ~v.ok
             /\ v.status = IF v.token = NoToken THEN "Unauthorized"
                           ELSE "InternalServerError"

C20_Witness ==
    /\ jwt_secret = Unset /\ token_service = "MissingJwtSecret"
    /\ \E v \in verdicts : v.token.form = "jwt" /\ v.status = "InternalServerError"

\* every raw refresh secret generated so far, delivered to a client or not
Issued == 1 .. (nextUuid - 1)

\* C21: every stored refresh session holds the hash of a secret that was issued,
\* and no stored token_hash is the raw text of a secret returned to a client.
C21_OnlyHashStored ==
    \A s \in sessions :
        /\ \E raw \in Issued : s.token_hash = HashToken(raw)
        /\ \A raw \in Issued \cup clientSecrets : s.token_hash # PlainText(raw)

C21_Witness ==
    /\ \E raw \in clientSecrets : Stored(raw) # {}
    /\ \E raw \in clientSecrets : Stored(raw) = {}
    /\ \E p \in Procs : proc[p].kind = "refresh" /\ proc[p].pc = "revoke"

\* the step in which a refresh request arrives in slot p
RefreshArrives(p) ==
    Free(p) /\ started' = started + 1 /\ proc'[p].kind = "refresh"

\* C22: a session is stored with expires_at = issue time + 7 days (604800 s); a
\* redeem of its secret goes on at every instant up to and including expires_at
\* and ends in RefreshTokenExpired at every later instant; no refresh returns
\* tokens from a record that was expired when it was redeemed.
C22_SevenDaysInclusive ==
    [][/\ \A s \in sessions' \ sessions : s.expires_at = now + 604800
       /\ \A p \in Procs :
             /\ RefreshArrives(p)
                => \A s \in Stored(proc'[p].raw) :
                      /\ now <= s.expires_at => proc'[p].pc = "issue"
                      /\ now > s.expires_at => proc'[p].pc = "delete_expired"
             /\ (proc[p].pc = "delete_expired" /\ proc'[p].pc = "done")
                => proc'[p].result = "RefreshTokenExpired"
             /\ (/\ proc[p].kind = "refresh" /\ proc[p].pc = "revoke"
                 /\ proc'[p].pc = "done")
                => /\ proc'[p].result = "Ok"
                   /\ \E s \in pre.sessions :
                         /\ s.token_hash = HashToken(proc[p].raw)
                         /\ proc[p].at <= s.expires_at]_vars

C22_Witness ==
    \E p \in Procs :
        /\ proc[p].kind = "refresh" /\ proc[p].pc = "done" /\ proc[p].result = "Ok"
        /\ \E s \in pre.sessions : /\ s.token_hash = HashToken(proc[p].raw)
                                    /\ s.expires_at = proc[p].at
        /\ \E s \in sessions : s.expires_at = 2 * 604800

\* C23: delete_expired removes exactly the session rows whose expires_at is
\* before the current time; and no step of a request (login, refresh, logout,
\* logout_all) removes a row other than the one its secret names or, for
\* logout_all, the rows of its user: no request sweeps expired rows.
C23_ReapOnlyExpired ==
    [][/\ (sessions' # sessions /\ proc' = proc)
          => sessions' = {s \in sessions : s.expires_at >= now}
       /\ proc' # proc
          => \A s \in sessions \ sessions' :
                \E p \in Procs :
                   /\ proc'[p] # proc[p]
                   /\ \/ s.token_hash = HashToken(proc'[p].raw)
                      \/ proc'[p].kind = "logout_all" /\ s.user_id = proc'[p].user]_vars

C23_Witness ==
    /\ Cardinality(clientSecrets) = started /\ outcomes = {}
    /\ \A p \in Procs : proc[p].kind \in {"none", "login"}
    /\ \E raw \in clientSecrets : Stored(raw) = {}
    /\ \E s \in sessions : s.expires_at >= now

ReferentialIntegrity ==
    /\ \A l \in links : \E u \in users : u.id = l.user_id
    /\ \A s \in sessions : \E u \in users : u.id = s.user_id

\* C24: every OAuthLink and every refresh session references an existing User in
\* every state, and the removal of a user removes all links and sessions of
\* that user and no row of any other user.
C24_CascadeKeepsIntegrity ==
    [][/\ ReferentialIntegrity'
       /\ \A u \in users \ users' :
             /\ users' = users \ {u}
             /\ links' = {l \in links : l.user_id # u.id}
             /\ sessions' = {s \in sessions : s.user_id # u.id}]_vars

C24_Witness ==
    /\ Cardinality(users) = 1 /\ nextUserId = 3
    /\ links # {} /\ nextLinkId - 1 > Cardinality(links)
    /\ sessions # {}
    /\ \E raw \in clientSecrets : Stored(raw) = {}

\* C25: no two refresh session rows share a token_hash, and a login by a user
\* who may already hold live sessions adds one session row of that user and
\* leaves every existing row as it is.
C25_SessionsCoexist ==
    [][/\ \A s1, s2 \in sessions' : s1.token_hash = s2.token_hash => s1 = s2
       /\ \A p \in Procs :
             (proc[p].kind = "login" /\ proc[p].pc = "issue" /\ proc'[p] # proc[p])
             => /\ proc'[p].result = "Ok"
                /\ \E s \in sessions' \ sessions :
                      /\ sessions' = sessions \cup {s}
                      /\ s.user_id = proc[p].user]_vars

C25_Witness ==
    \E p \in Procs :
        /\ proc[p].kind = "login" /\ proc[p].pc = "done" /\ proc[p].result = "Ok"
        /\ Cardinality({s \in sessions : s.user_id = proc[p].user}) = 3
        /\ \A raw \in clientSecrets : Stored(raw) # {}

\* C26: a successful oauth_login returns an access credential whose subject is
\* the resolved user's id and a raw refresh secret whose stored session that
\* user owns; it adds exactly one session row, and the secret differs from
\* every secret returned before.
C26_LoginTokenPair ==
    [][\A p \in Procs :
          (/\ proc[p].kind = "login" /\ proc[p].pc = "issue"
           /\ proc'[p].pc = "done" /\ proc'[p].result = "Ok")
          => /\ proc'[p].user = proc[p].user
             /\ proc'[p].access.form = "jwt"
             /\ ParseI32(proc'[p].access.sub) = proc[p].user
             /\ \E s \in sessions' \ sessions :
                   /\ sessions' = sessions \cup {s}
                   /\ s.token_hash = HashToken(proc'[p].newRaw)
                   /\ s.user_id = proc[p].user
             /\ proc'[p].newRaw \notin clientSecrets
             /\ proc'[p].newRaw \in clientSecrets'
             /\ proc'[p].access \in clientTokens']_vars

C26_Witness ==
    \E p \in Procs :
        /\ proc[p].kind = "login" /\ proc[p].pc = "done" /\ proc[p].result = "Ok"
        /\ proc[p].again = {proc[p].user}
        /\ Cardinality(clientSecrets) >= 2
        /\ ParseI32(proc[p].access.sub) = proc[p].user

\* a refresh that ran with nothing interleaved and returned Ok
RefreshedAlone(p) ==
    /\ proc[p].kind = "refresh" /\ proc[p].solo
    /\ proc[p].pc = "done" /\ proc[p].result = "Ok"

\* C27: a successful refresh_tokens(old) run without interference returns a
\* credential whose subject, and a new session whose owner, is the owner of the
\* old session; afterwards the old secret is not redeemable, the new one is, and
\* the user holds as many sessions as before.
C27_RotationPreservesOwner ==
    \A p \in Procs :
        RefreshedAlone(p)
        => \E old \in pre.sessions :
              /\ old.token_hash = HashToken(proc[p].raw)
              /\ ParseI32(proc[p].access.sub) = old.user_id
              /\ FindByTokenHash(HashToken(proc[p].raw)) = {}
              /\ \E s \in FindByTokenHash(HashToken(proc[p].newRaw)) :
                    s.user_id = old.user_id /\ ~(s.expires_at < now)
              /\ Cardinality({s \in sessions : s.user_id = old.user_id})
                    = Cardinality({s \in pre.sessions : s.user_id = old.user_id})

C27_Witness ==
    \E p \in Procs :
        /\ RefreshedAlone(p)
        /\ Cardinality({s \in sessions : s.user_id = proc[p].user}) = 2
        /\ proc[p].newRaw \in clientSecrets
        /\ now > proc[p].at

\* C28: logout-all deletes sessions only of the user id carried in the verified
\* access credential of the same request: a request that is not authenticated
\* deletes nothing, and every deleted row belongs to the subject of a credential
\* this server minted.
C28_LogoutAllOnlyOwnSessions ==
    [][\A p \in Procs :
          LogoutAllArrives(p)
          => /\ proc'[p].result # "Ok" => sessions' = sessions
             /\ \A s \in sessions \ sessions' :
                   /\ proc'[p].access \in clientTokens
                   /\ proc'[p].access.key = jwt_secret
                   /\ s.user_id = ParseI32(proc'[p].access.sub)]_vars

C28_Witness ==
    \E p \in Procs :
        /\ proc[p].kind = "logout_all" /\ proc[p].result = "Unauthorized"
        /\ proc[p].access.form = "jwt" /\ proc[p].access.key = AttackerKey
        /\ \E s \in sessions : s.user_id = ParseI32(proc[p].access.sub)
        /\ \E s \in sessions : s.user_id # ParseI32(proc[p].access.sub)

\* the cookies of the response to the request in slot p
ResponseCookies(p) == SetCookies(proc[p].kind, proc[p].access, proc[p].newRaw)

\* C29: both cookies set by login and by refresh are HTTP-only with path "/";
\* they are Secure with SameSite=None exactly when ENV is "production", and
\* SameSite=Lax for every other or absent ENV.
C29_CookieFlags ==
    \A p \in Procs :
        (/\ proc[p].kind \in {"login", "refresh"}
         /\ proc[p].pc = "done" /\ proc[p].result = "Ok")
        => /\ ResponseCookies(p)[1].name = "access_token"
           /\ ResponseCookies(p)[1].value = proc[p].access
           /\ ResponseCookies(p)[2].name = "refresh_token"
           /\ ResponseCookies(p)[2].value = proc[p].newRaw
           /\ \A i \in {1, 2} :
                 LET c == ResponseCookies(p)[i] IN
                 /\ c.http_only /\ c.path = "/"
                 /\ (c.secure /\ c.same_site = "None") <=> env = "production"
                 /\ c.secure <=> env = "production"
                 /\ env # "production" => c.same_site = "Lax"

C29_Witness ==
    \E p \in Procs :
        /\ proc[p].kind = "refresh" /\ proc[p].pc = "done" /\ proc[p].result = "Ok"
        /\ env = "Production"
        /\ ResponseCookies(p)[2].same_site = "Lax" /\ ~ResponseCookies(p)[2].secure

FailedOnDatabase(p) == proc[p].pc = "done" /\ proc[p].result = "Database"

\* C30: the response to a request that ended in ServiceError::Database is the
\* same whatever the database error was (status 500, "Internal server error"),
\* and RefreshTokenNotFound and RefreshTokenExpired both answer with status 401.
C30_DatabaseErrorsIndistinguishable ==
    /\ \A p, q \in Procs :
          FailedOnDatabase(p) /\ FailedOnDatabase(q)
          => /\ proc[p].db_err # NoDbErr
             /\ Response(p) = Response(q)
             /\ Response(p) = [status |-> 500, error |-> "Internal server error"]
    /\ \A p \in Procs :
          (/\ proc[p].pc = "done"
           /\ proc[p].result \in {"RefreshTokenNotFound", "RefreshTokenExpired"})
          => Response(p).status = 401

C30_Witness ==
    \E p, q \in Procs :
        /\ FailedOnDatabase(p) /\ FailedOnDatabase(q)
        /\ proc[p].db_err = "unique: users.email"
        /\ proc[q].db_err = "unique: users.username"

\* a step taken by the refresh_tokens call in slot p
RefreshMoves(p) == proc'[p].kind = "refresh" /\ proc'[p] # proc[p]

\* C31: within one refresh_tokens call the steps run in the order redeem, issue,
\* revoke: the redeem writes nothing, the new session is inserted only by a call
\* whose redeem found the record, and the old record is deleted only by a call
\* that has inserted its new session.
C31_RedeemIssueRevoke ==
    [][\A p \in Procs :
          RefreshMoves(p)
          => /\ RefreshArrives(p)
                => /\ sessions' = sessions
                   /\ proc'[p].pc \in {"issue", "delete_expired", "done"}
                   /\ proc'[p].pc = "issue"
                      => (Stored(proc'[p].raw) # {} /\ proc'[p].newRaw = BogusSecret)
                   /\ proc'[p].pc = "done" => proc'[p].result = "RefreshTokenNotFound"
             /\ sessions' \ sessions # {}
                => /\ proc[p].pc = "issue" /\ proc'[p].pc = "revoke"
                   /\ sessions \subseteq sessions'
                   /\ \A s \in sessions' \ sessions :
                         s.token_hash = HashToken(proc'[p].newRaw)
             /\ proc'[p].pc = "revoke" => sessions' \ sessions # {}
             /\ (sessions \ sessions' # {} /\ proc[p].pc # "delete_expired")
                => /\ proc[p].pc = "revoke" /\ proc'[p].pc = "done"
                   /\ proc[p].newRaw \in Issued
                   /\ sessions \ sessions' = Stored(proc[p].raw)
             /\ (proc'[p].pc = "done" /\ proc'[p].result = "Ok")
                => proc[p].pc = "revoke"]_vars

C31_Witness ==
    \E p \in Procs :
        /\ proc[p].kind = "refresh" /\ proc[p].pc = "done" /\ proc[p].result = "Ok"
        /\ Stored(proc[p].raw) = {} /\ Stored(proc[p].newRaw) # {}
        /\ \E q \in Procs : proc[q].kind = "refresh" /\ proc[q].pc = "revoke"

\* the step in which the refresh_tokens call in slot p stops after its redeem
StopsAfterRedeem(p) ==
    /\ proc[p].kind = "refresh" /\ proc[p].pc \in {"issue", "revoke"}
    /\ proc'[p].pc = "abandoned"

\* C32: a refresh_tokens call that stops after redeem and before revoke leaves
\* the old record stored, so the old secret is redeemed again by a later call
\* as long as the record has not expired; when the call stops after issue, the
\* old and the new session are both stored and unexpired.
C32_StopLeavesOldSecretLive ==
    [][\A p \in Procs :
          /\ StopsAfterRedeem(p)
             => /\ sessions' = sessions
                /\ \A old \in pre.sessions :
                      (/\ old.token_hash = HashToken(proc[p].raw)
                       /\ ~(old.expires_at < now))
                      => /\ old \in sessions'
                         /\ proc[p].pc = "revoke"
                            => \E new \in sessions' :
                                  /\ new.token_hash = HashToken(proc[p].newRaw)
                                  /\ new # old /\ new.user_id = old.user_id
                                  /\ ~(new.expires_at < now)
          /\ (/\ RefreshArrives(p)
              /\ \E a \in dropped : /\ a.kind = "refresh" /\ a.raw = proc'[p].raw
                                      /\ a.pc \in {"issue", "revoke"})
             => /\ \A s \in Stored(proc'[p].raw) :
                      ~(s.expires_at < now)
                      => (proc'[p].pc = "issue" /\ proc'[p].user = s.user_id)
                /\ Stored(proc'[p].raw) = {}
                   => proc'[p].result = "RefreshTokenNotFound"]_vars

C32_Witness ==
    \E p \in Procs :
        /\ proc[p].kind = "refresh" /\ proc[p].pc = "done" /\ proc[p].result = "Ok"
        /\ \E a \in dropped : /\ a.kind = "refresh" /\ a.raw = proc[p].raw
                                /\ a.pc = "revoke" /\ Stored(a.newRaw) # {}
                                /\ a.newRaw \notin clientSecrets
        /\ Cardinality(sessions) = 2

\* C33: mint and verify round-trip: a credential minted for a user id and
\* presented no later than its exp under the same signing secret authenticates
\* as exactly that id, and a credential signed under another secret is rejected.
C33_MintVerifyRoundTrip ==
    \A v \in verdicts :
        /\ (v.token \in minted /\ v.at <= v.token.exp)
           => /\ v.status = "Ok"
              /\ \E user_id \in UserIds :
                    /\ v.token = GenerateAccessToken(user_id, v.token.iat)
                    /\ v.id = user_id
        /\ (v.token.form = "jwt" /\ v.token.key # jwt_secret) => v.status # "Ok"
        /\ v.status = "Ok" => (v.token \in minted /\ v.id = ParseI32(v.token.sub))

C33_Witness ==
    /\ \E v \in verdicts : /\ v.token \in minted /\ v.at = v.token.exp
                             /\ v.status = "Ok" /\ v.id = 2
    /\ \E t \in minted : ParseI32(t.sub) = 1

\* the step in which the refresh_tokens call in slot p returns an error
RefreshFails(p) ==
    RefreshMoves(p) /\ proc'[p].pc = "done" /\ proc'[p].result # "Ok"

C35_LogoutAllIsFinal ==
    \A q \in Procs :
        (/\ proc[q].kind = "logout_all" /\ proc[q].pc = "done"
         /\ proc[q].result = "Ok"
         /\ LoginCount(proc[q].user) = proc[q].seen)
        => \A s \in sessions : s.user_id # proc[q].user

\* no request is between two of its statements
Quiescent == \A p \in Procs : ~InFlight(p)

\* C36: a refresh secret never forks: once every call has returned, the number
\* of stored refresh sessions of a user is at most the number of successful
\* logins of that user, under any interleaving of refreshes.
C36_SessionsBoundedByLogins ==
    Quiescent
    => \A u \in users :
          Cardinality({s \in sessions : s.user_id = u.id}) <= LoginCount(u.id)

\* C37: the max-age of the access_token cookie set by login and by refresh
\* (900 seconds) equals the lifetime exp - iat of the credential it carries.
C37_CookieAgeMatchesCredential ==
    \A p \in Procs :
        (/\ proc[p].kind \in {"login", "refresh"}
         /\ proc[p].pc = "done" /\ proc[p].result = "Ok")
        => /\ ResponseCookies(p)[1].name = "access_token"
           /\ ResponseCookies(p)[1].max_age = 900
           /\ ResponseCookies(p)[1].max_age
                 = ResponseCookies(p)[1].value.exp - ResponseCookies(p)[1].value.iat

\* C38: whenever no oauth_login call is in flight, every User row created by
\* oauth_login owns at least one OAuthLink, also after a login whose OAuthLink
\* insert was refused.
C38_EveryUserHasLink ==
    (\A p \in Procs : ~(proc[p].kind = "login" /\ InFlight(p)))
    => \A u \in users : \E l \in links : l.user_id = u.id

\* a login, run with nothing interleaved, with an unseen provider identity and an
\* unseen email whose username another user holds
UsernameTaken(p) ==
    /\ FirstLogin(p)
    /\ \E u \in pre.users : u.username = proc[p].req.username

\* C39: an oauth_login with an unseen provider identity and an unseen email but
\* a username held by another user fails with a Database error and leaves the
\* User, OAuthLink and refresh session tables unchanged; a retry with the same
\* assertion fails in the same way.
C39_TakenUsernameFails ==
    \A p \in Procs :
        UsernameTaken(p)
        => /\ proc[p].result = "Database"
           /\ proc[p].db_err = "unique: users.username"
           /\ Response(p).status = 500
           /\ users = pre.users /\ links = pre.links /\ sessions = pre.sessions
           /\ proc[p].access = NoToken /\ proc[p].newRaw = BogusSecret
           /\ proc[p].req \in refused

C39_Witness ==
    \E p \in Procs :
        /\ UsernameTaken(p) /\ proc[p].retry
        /\ proc[p].result = "Database"
        /\ Cardinality(users) = 1 /\ Cardinality(links) = 1

\* the abandoned logins of p's assertion that had found or created their user
DroppedFor(p) ==
    {a \in dropped : a.kind = "login" /\ a.req = proc[p].req /\ a.user # 0}

\* a login, run with nothing interleaved, that repeats an assertion whose earlier
\* call was abandoned, the provider identity not being linked to another user
RepeatsStopped(p) ==
    /\ proc[p].kind = "login" /\ proc[p].solo
    /\ DroppedFor(p) # {}
    /\ \A l \in pre.links :
          (/\ l.provider = proc[p].req.provider
           /\ l.provider_user_id = proc[p].req.provider_user_id)
          => l.user_id \in {a.user : a \in DroppedFor(p)}

RetriesAfterStop(p) == RepeatsStopped(p) /\ proc[p].pc = "done"

\* a login, run with nothing interleaved, of a user one of whose refresh calls
\* was abandoned after its redeem
RetriesAfterRefreshStop(p) ==
    /\ proc[p].kind = "login" /\ proc[p].solo /\ proc[p].pc = "done"
    /\ \E a \in dropped : /\ a.kind = "refresh" /\ a.pc \in {"issue", "revoke"}
                            /\ a.user \in proc[p].again

\* a login, run with nothing interleaved, that repeats an assertion whose earlier
\* call was abandoned before it had found or created a user, and that matches
\* no link, no user's email and no user's username
RetriesAfterEarlyStop(p) ==
    /\ FirstLogin(p)
    /\ \E a \in dropped : a.kind = "login" /\ a.req = proc[p].req /\ a.user = 0
    /\ \A u \in pre.users : u.username # proc[p].req.username

NoLockOut ==
    \A p \in Procs :
        /\ RetriesAfterEarlyStop(p)
           => /\ proc[p].result = "Ok"
              /\ \E u \in users \ pre.users :
                    users = pre.users \cup {u} /\ u.id = proc[p].user
        /\ RetriesAfterStop(p)
           => /\ proc[p].result = "Ok"
              /\ proc[p].user \in {a.user : a \in DroppedFor(p)}
              /\ users = pre.users
        /\ RetriesAfterRefreshStop(p)
           => /\ proc[p].result = "Ok"
              /\ proc[p].again = {proc[p].user}
              /\ users = pre.users /\ links = pre.links

Undelivered(s) == \A raw \in clientSecrets : s.token_hash # HashToken(raw)

PartialEffectsStay ==
    /\ \A p \in Procs :
          (proc[p].pc # "abandoned" /\ proc'[p].pc = "abandoned")
          => (users' = users /\ links' = links /\ sessions' = sessions)
    /\ \A s \in sessions \ sessions' :
          Undelivered(s)
          => \/ s.expires_at < now
             \/ \E p \in Procs : /\ proc'[p] # proc[p]
                                   /\ proc'[p].kind = "logout_all"
                                   /\ s.user_id = proc'[p].user

====
